---- MODULE Spec2Model ----
(***************************************************************************)
(* A model of export_mu/mesh.py: the conversion of a baked polygon mesh    *)
(* into a triangulated, vertex-deduplicated mesh with tangents, the        *)
(* material binding, the skin resolver and the two object handlers.        *)
(*                                                                         *)
(* Python values are modelled as follows.                                  *)
(*   - A list is a sequence; Python position k is TLA+ position k + 1.     *)
(*     Indices the program stores (vertex indices, deduplicated indices,   *)
(*     face indices) keep their 0-based values.                            *)
(*   - A dict is a function whose DOMAIN is the set of its keys.           *)
(*   - A mathutils Vector is an object on a heap, named by its id: a list  *)
(*     of Vectors is a list of ids.  Coordinates are integers.             *)
(*   - An exception ends the run in pc = "raised" with err naming it.      *)
(***************************************************************************)
EXTENDS Integers, Sequences, FiniteSets, TLC

VARIABLES
    entry,        \* the function the caller invoked
    pc,           \* position in the running function
    err,          \* the exception raised, or "none"
    mesh,         \* the baked source mesh (polygons, uv_layers)
    sm_arg,       \* history: the submeshes argument as first passed
    submeshes,    \* list of submeshes, rewritten in place
    smi, i,       \* loop positions: submesh, element / vertex
    vuvdict, verts, normals, uvs, groups,      \* locals of make_verts
    mumesh,       \* the MuMesh under construction / returned
    mesh_groups,  \* mesh.groups as assigned by make_mesh
    heap, sdir, tdir, tangents,                \* locals of make_tangents
    registry,     \* mu.materials
    slots,        \* mesh.materials of the object handled
    rend,         \* value returned by make_renderer
    muobj,        \* the output object: its attributes
    skin          \* arguments and locals of mesh_bones

vertLocals == <<vuvdict, verts, normals, uvs, groups>>

tanLocals == <<heap, sdir, tdir, tangents>>

binder == <<registry, slots, rend>>

vars == <<entry, pc, err, mesh, sm_arg, submeshes, smi, i, vertLocals, mumesh,
          mesh_groups, tanLocals, binder, muobj, skin>>

(***************************************************************************)
(* Bounds of the model.                                                    *)
(***************************************************************************)
MaxFaces == 2

MaxLayers == 3

MaxSkinVerts == 2

(***************************************************************************)
(* Program constants.                                                      *)
(***************************************************************************)
UVLayerLimit == 2

BoneTableSize == 4

(***************************************************************************)
(* Small helpers.                                                          *)
(***************************************************************************)
Min(a, b) == IF a < b THEN a ELSE b

Range(s) == {s[k] : k \in DOMAIN s}

RECURSIVE Flatten(_)
Flatten(ss) == IF ss = <<>> THEN <<>> ELSE Head(ss) \o Flatten(Tail(ss))

RECURSIVE SumLen(_)
SumLen(ss) == IF ss = <<>> THEN 0 ELSE Len(Head(ss)) + SumLen(Tail(ss))

SeqsUpTo(S, n) == UNION {[1..k -> S] : k \in 1..n}

(***************************************************************************)
(* The source vertex table (mesh.vertices): position, normal and vertex    *)
(* group memberships of each source vertex.  Vertices 0..3 are the corners *)
(* of the unit square; vertex 4 lies above vertex 0.                       *)
(***************************************************************************)
Co(v) ==
    CASE v = 0 -> <<0, 0, 0>>
      [] v = 1 -> <<1, 0, 0>>
      [] v = 2 -> <<1, 1, 0>>
      [] v = 3 -> <<0, 1, 0>>
      [] v = 4 -> <<0, 0, 1>>

Normal(v) == IF v = 4 THEN <<0, 1, 0>> ELSE <<0, 0, 1>>

VertexGroups(v) == <<[group |-> v % 2, weight |-> 10 - v]>>

(***************************************************************************)
(* Input meshes.  A face is a sequence of source vertex indices; a UV      *)
(* layer holds one UV per loop (face corner), stored flat over the faces.  *)
(* A layer is laid out in one of four ways:                                *)
(*   "vertex": the UV of a corner is the (x, y) of its vertex, so corners  *)
(*             of one vertex agree across faces;                           *)
(*   "island": each face has its own UV island (shifted by the face        *)
(*             index), so corners of different faces never agree;          *)
(*   "seam":   each face is sheared by its index, so faces agree on the    *)
(*             vertices with y = 0 and differ on those with y = 1;         *)
(*   "flat":   every corner has UV (0, 0).                                 *)
(***************************************************************************)
FaceShapes == {<<0, 1, 2>>, <<0, 1, 2, 3>>, <<0, 1, 2, 3, 4>>}

Layouts == {"vertex", "island", "seam", "flat"}

LayoutLists == {<<>>} \cup SeqsUpTo(Layouts, MaxLayers)

CornerUV(layout, f, v) ==
    CASE layout = "vertex" -> <<Co(v)[1], Co(v)[2]>>
      [] layout = "island" -> <<Co(v)[1] + 2 * f, Co(v)[2]>>
      [] layout = "seam"   -> <<Co(v)[1] + 2 * f * Co(v)[2], Co(v)[2]>>
      [] layout = "flat"   -> <<0, 0>>

LayerData(faces, layout) ==
    Flatten([f \in 1..Len(faces) |->
               [c \in 1..Len(faces[f]) |-> CornerUV(layout, f - 1, faces[f][c])]])

Polygon(faces, f) ==
    [vertices   |-> faces[f],
     loop_start |-> SumLen(SubSeq(faces, 1, f - 1)),
     loop_total |-> Len(faces[f])]

BakedMesh(faces, layouts) ==
    [polygons  |-> [f \in 1..Len(faces) |-> Polygon(faces, f)],
     uv_layers |-> [l \in 1..Len(layouts) |-> LayerData(faces, layouts[l])]]

Meshes == {BakedMesh(faces, layouts) :
             faces \in SeqsUpTo(FaceShapes, MaxFaces), layouts \in LayoutLists}

(***************************************************************************)
(* split_face: the triangle fan of one face, each corner a CornerKey       *)
(* (vertex index, tuple of its UVs in the first UVLayerLimit layers).      *)
(***************************************************************************)
(* The second corner of fan triangle k is corner k of the face (line 45).  *)
(* FanCornerBad is the off-by-one fan, which repeats corner k + 1.         *)
FanCornerBad(k) == IF k = 0 THEN 0 ELSE k + 1

FanCorner(k) == k

split_face(m, index) ==
    LET face == m.polygons[index + 1]
        s    == face.loop_start
        e    == face.loop_start + face.loop_total
        uv   == [l \in 1..Min(Len(m.uv_layers), UVLayerLimit) |->
                   SubSeq(m.uv_layers[l], s + 1, e)]
        fv   == face.vertices
        corner(k) == <<fv[k + 1], [l \in 1..Len(uv) |-> uv[l][k + 1]]>>
    IN  [t \in 1..(Len(fv) - 2) |->
           <<corner(0), corner(FanCorner(t)), corner(t + 1)>>]

(***************************************************************************)
(* build_submeshes: one submesh holding every face index in order.         *)
(***************************************************************************)
build_submeshes(m) == << [f \in 1..Len(m.polygons) |-> f - 1] >>

(***************************************************************************)
(* make_verts, one corner: look the CornerKey up in vuvdict, emit a new    *)
(* vertex on a miss, and append the index to the triangle being built.     *)
(***************************************************************************)
(* The key of vuvdict is the whole CornerKey (lines 77-78) and a new       *)
(* vertex gets the index len(verts) (line 78).  DictKeyVertexOnly keys on  *)
(* the vertex index alone and NewIndexOffByOne counts from one: the faulty *)
(* variants the deduplication properties are tested against.               *)
DictKeyVertexOnly(vuv) == vuv[1]

DictKey(vuv) == vuv

NewIndexOffByOne(vs) == Len(vs) + 1

NewIndex(vs) == Len(vs)

DictPut(d, k, x) == [q \in DOMAIN d \cup {k} |-> IF q = k THEN x ELSE d[q]]

AddCorner(st, vuv) ==
    LET k    == DictKey(vuv)
        miss == k \notin DOMAIN st.vuvdict
        d    == IF miss THEN DictPut(st.vuvdict, k, NewIndex(st.verts))
                        ELSE st.vuvdict
    IN  [vuvdict |-> d,
         verts   |-> IF miss THEN Append(st.verts, Co(vuv[1])) ELSE st.verts,
         normals |-> IF miss THEN Append(st.normals, Normal(vuv[1]))
                             ELSE st.normals,
         uvs     |-> IF miss THEN Append(st.uvs, vuv[2]) ELSE st.uvs,
         groups  |-> IF miss THEN Append(st.groups, VertexGroups(vuv[1]))
                             ELSE st.groups,
         tv      |-> Append(st.tv, d[k])]

AddTriangle(st, ft) == AddCorner(AddCorner(AddCorner(st, ft[1]), ft[2]), ft[3])

(***************************************************************************)
(* Values of the variables a function has not written yet.                 *)
(***************************************************************************)
NoMesh == [polygons |-> <<>>, uv_layers |-> <<>>]

NoMuMesh == [present |-> {}, verts |-> <<>>, uvs |-> <<>>, uv2s |-> <<>>,
             normals |-> <<>>, tangents |-> <<>>, submeshes |-> <<>>]

NoSkin == [armature |-> <<>>, vertex_groups |-> <<>>, mgroups |-> <<>>,
           boneset |-> {}, bones |-> <<>>, boneindices |-> <<>>,
           printed |-> <<>>]

None == [tag |-> "None"]

FreshObject == [attrs |-> {}, shared_mesh |-> NoMuMesh, renderer |-> None]

IdleButSkin ==
    /\ err = "none"
    /\ smi = 0 /\ i = 0
    /\ vuvdict = <<>> /\ verts = <<>> /\ normals = <<>> /\ uvs = <<>>
    /\ groups = <<>>
    /\ mumesh = NoMuMesh /\ mesh_groups = <<>>
    /\ heap = <<>> /\ sdir = <<>> /\ tdir = <<>> /\ tangents = <<>>
    /\ registry = <<>> /\ slots = <<>> /\ rend = None
    /\ muobj = FreshObject

Idle == IdleButSkin /\ skin = NoSkin

(***************************************************************************)
(* Init: handle_mesh is about to be called on a fresh object whose baked   *)
(* mesh is one of Meshes.                                                  *)
(***************************************************************************)
Init ==
    /\ \/ entry = "handle_mesh" /\ pc = "build_submeshes"
       \/ entry = "handle_skinned_mesh" /\ pc = "call"
    /\ mesh \in Meshes
    /\ submeshes = <<>>
    /\ sm_arg = <<>>
    /\ Idle

(***************************************************************************)
(* make_mesh, line 139: submeshes = build_submeshes(mesh).                 *)
(***************************************************************************)
BuildSubmeshes ==
    /\ pc = "build_submeshes"
    /\ submeshes' = build_submeshes(mesh)
    /\ sm_arg' = submeshes'
    /\ pc' = "make_tris"
    /\ smi' = 0 /\ i' = 0
    /\ UNCHANGED <<entry, err, mesh, vertLocals, mumesh, mesh_groups,
                   tanLocals, binder, muobj, skin>>

(***************************************************************************)
(* make_tris: one iteration of the while loop replaces the face index at   *)
(* position i of the current submesh by the face's triangles.              *)
(***************************************************************************)
MakeTrisFace ==
    /\ pc = "make_tris"
    /\ smi < Len(submeshes)
    /\ i < Len(submeshes[smi + 1])
    /\ LET sm   == submeshes[smi + 1]
           tris == split_face(mesh, sm[i + 1])
       IN  /\ submeshes' = [submeshes EXCEPT ![smi + 1] =
                              SubSeq(sm, 1, i) \o tris \o SubSeq(sm, i + 2, Len(sm))]
           /\ i' = i + Len(tris)
    /\ UNCHANGED <<entry, pc, err, mesh, sm_arg, smi, vertLocals, mumesh,
                   mesh_groups, tanLocals, binder, muobj, skin>>

(* The while loop of a submesh ends: the next submesh, or return and enter  *)
(* make_verts (lines 68-71).                                                *)
MakeTrisNext ==
    /\ pc = "make_tris"
    /\ smi < Len(submeshes)
    /\ i >= Len(submeshes[smi + 1])
    /\ smi' = IF smi + 1 < Len(submeshes) THEN smi + 1 ELSE 0
    /\ i' = 0
    /\ pc' = IF smi + 1 < Len(submeshes) THEN "make_tris" ELSE "make_verts_sm"
    /\ UNCHANGED <<entry, err, mesh, sm_arg, submeshes, vertLocals, mumesh,
                   mesh_groups, tanLocals, binder, muobj, skin>>

(***************************************************************************)
(* make_verts, the head of "for sm in submeshes": line 73 gives each       *)
(* submesh a fresh vuvdict; after the last submesh the function returns.   *)
(***************************************************************************)
DictForSubmesh(d) == <<>>

MakeVertsSubmesh ==
    /\ pc = "make_verts_sm"
    /\ smi < Len(submeshes)
    /\ vuvdict' = DictForSubmesh(vuvdict)
    /\ i' = 0
    /\ pc' = "make_verts_tri"
    /\ UNCHANGED <<entry, err, mesh, sm_arg, submeshes, smi, verts, normals,
                   uvs, groups, mumesh, mesh_groups, tanLocals, binder,
                   muobj, skin>>

(* One iteration of "for i, ft in enumerate(sm)": lines 75-85.             *)
MakeVertsTri ==
    /\ pc = "make_verts_tri"
    /\ i < Len(submeshes[smi + 1])
    /\ LET st0 == [vuvdict |-> vuvdict, verts |-> verts, normals |-> normals,
                   uvs |-> uvs, groups |-> groups, tv |-> <<>>]
           st  == AddTriangle(st0, submeshes[smi + 1][i + 1])
       IN  /\ vuvdict' = st.vuvdict
           /\ verts' = st.verts
           /\ normals' = st.normals
           /\ uvs' = st.uvs
           /\ groups' = st.groups
           /\ submeshes' = [submeshes EXCEPT ![smi + 1][i + 1] = st.tv]
    /\ i' = i + 1
    /\ UNCHANGED <<entry, pc, err, mesh, sm_arg, smi, mumesh, mesh_groups,
                   tanLocals, binder, muobj, skin>>

(* The inner loop of a submesh ends: back to the head of the outer loop.   *)
MakeVertsNext ==
    /\ pc = "make_verts_tri"
    /\ i >= Len(submeshes[smi + 1])
    /\ smi' = smi + 1
    /\ i' = 0
    /\ pc' = "make_verts_sm"
    /\ UNCHANGED <<entry, err, mesh, sm_arg, submeshes, vertLocals, mumesh,
                   mesh_groups, tanLocals, binder, muobj, skin>>

(* make_verts returns (line 86) to its caller.                             *)
MakeVertsReturn ==
    /\ pc = "make_verts_sm"
    /\ smi >= Len(submeshes)
    /\ pc' = IF entry = "make_verts" THEN "done" ELSE "make_mesh_streams"
    /\ UNCHANGED <<entry, err, mesh, sm_arg, submeshes, smi, i, vertLocals,
                   mumesh, mesh_groups, tanLocals, binder, muobj, skin>>

(***************************************************************************)
(* make_mesh, lines 141-149: the streams are stored on the MuMesh.  uvs    *)
(* holds one UV tuple per deduplicated vertex, so len(uvs) is the vertex   *)
(* count; uv[0] and uv[1] raise IndexError on a tuple that is too short.   *)
(* mumesh.present is the set of attributes make_mesh has assigned.         *)
(***************************************************************************)
HasUV0Stream(us) == Len(us) > 0

HasUV1Stream(us) == Len(us) > 1

Column(us, k) == [n \in 1..Len(us) |-> us[n][k + 1]]

CanIndex(us, k) == \A n \in 1..Len(us) : Len(us[n]) > k

MakeMeshStreams ==
    /\ pc = "make_mesh_streams"
    /\ uvs # <<>>
    /\ mesh_groups' = groups
    /\ LET base == [mumesh EXCEPT !.verts = verts, !.normals = normals,
                                  !.present = {"verts", "normals"}]
           ok0  == HasUV0Stream(uvs) => CanIndex(uvs, 0)
           with0 == IF HasUV0Stream(uvs)
                    THEN [base EXCEPT !.uvs = Column(uvs, 0),
                                      !.present = @ \cup {"uvs"}]
                    ELSE base
           ok1  == HasUV1Stream(uvs) => CanIndex(uvs, 1)
           with1 == IF HasUV1Stream(uvs)
                    THEN [with0 EXCEPT !.uv2s = Column(uvs, 1),
                                       !.present = @ \cup {"uv2s"}]
                    ELSE with0
       IN  IF ~ok0
           THEN /\ mumesh' = base
                /\ pc' = "raised" /\ err' = "IndexError"
           ELSE IF ~ok1
           THEN /\ mumesh' = with0
                /\ pc' = "raised" /\ err' = "IndexError"
           ELSE /\ mumesh' = [with1 EXCEPT !.submeshes = submeshes,
                                           !.present = @ \cup {"submeshes"}]
                /\ pc' = "make_tangents" /\ err' = err
    /\ UNCHANGED <<entry, mesh, sm_arg, submeshes, smi, i, vertLocals,
                   tanLocals, binder, muobj, skin>>

(***************************************************************************)
(* Vector arithmetic on integer coordinates.  In the input meshes every UV *)
(* triangle has r in {-1, 0, 1}, so the division by r is exact and         *)
(* r * r < 1e-6 holds exactly when r = 0.  Vector.normalize() leaves the   *)
(* zero vector unchanged; a unit vector is recorded by the shortest        *)
(* integer vector of its direction (projection, normalization and the sign *)
(* of a dot product are unchanged by a positive scaling).                  *)
(***************************************************************************)
Zero3 == <<0, 0, 0>>

VAdd(a, b) == <<a[1] + b[1], a[2] + b[2], a[3] + b[3]>>

VSub(a, b) == <<a[1] - b[1], a[2] - b[2], a[3] - b[3]>>

VScale(k, a) == <<k * a[1], k * a[2], k * a[3]>>

VDot(a, b) == a[1] * b[1] + a[2] * b[2] + a[3] * b[3]

Abs(x) == IF x < 0 THEN -x ELSE x

IDiv(x, r) == IF r > 0 THEN (IF x >= 0 THEN x \div r ELSE -((-x) \div r))
                       ELSE (IF x >= 0 THEN -(x \div (-r)) ELSE (-x) \div (-r))

VDiv(a, r) == <<IDiv(a[1], r), IDiv(a[2], r), IDiv(a[3], r)>>

RECURSIVE Gcd(_, _)
Gcd(a, b) == IF b = 0 THEN a ELSE Gcd(b, a % b)

Normalized(a) ==
    LET g == Gcd(Gcd(Abs(a[1]), Abs(a[2])), Abs(a[3]))
    IN  IF g = 0 THEN a ELSE VDiv(a, g)

Degenerate(r) == r * r * 1000000 < 1

(***************************************************************************)
(* make_tangents, lines 89-91: [Vector()] * n is a list of n references to *)
(* ONE Vector.  Object 1 is the Vector of sdir, object 2 that of tdir.     *)
(***************************************************************************)
ListRepeat(obj, n) == [k \in 1..n |-> obj]

IAdd(h, obj, v) == [h EXCEPT ![obj] = VAdd(@, v)]

MakeTangentsEnter ==
    /\ pc = "make_tangents"
    /\ mumesh.uvs # <<>>
    /\ heap' = <<Zero3, Zero3>>
    /\ sdir' = ListRepeat(1, Len(mumesh.verts))
    /\ tdir' = ListRepeat(2, Len(mumesh.verts))
    /\ tangents' = <<>>
    /\ smi' = 0 /\ i' = 0
    /\ pc' = "tangents_tri"
    /\ UNCHANGED <<entry, err, mesh, sm_arg, submeshes, vertLocals, mumesh,
                   mesh_groups, binder, muobj, skin>>

TriR(tri) ==
    LET w1 == mumesh.uvs[tri[1] + 1]
        w2 == mumesh.uvs[tri[2] + 1]
        w3 == mumesh.uvs[tri[3] + 1]
    IN  (w2[1] - w1[1]) * (w3[2] - w1[2]) - (w3[1] - w1[1]) * (w2[2] - w1[2])

TriDirs(tri) ==
    LET v1 == mumesh.verts[tri[1] + 1]
        v2 == mumesh.verts[tri[2] + 1]
        v3 == mumesh.verts[tri[3] + 1]
        w1 == mumesh.uvs[tri[1] + 1]
        w2 == mumesh.uvs[tri[2] + 1]
        w3 == mumesh.uvs[tri[3] + 1]
        u1 == VSub(v2, v1)
        u2 == VSub(v3, v1)
        s1 == w2[1] - w1[1]
        s2 == w3[1] - w1[1]
        t1 == w2[2] - w1[2]
        t2 == w3[2] - w1[2]
        r  == s1 * t2 - s2 * t1
    IN  [sd |-> VDiv(VSub(VScale(t2, u1), VScale(t1, u2)), r),
         td |-> VDiv(VSub(VScale(s1, u2), VScale(s2, u1)), r)]

(* One iteration of "for tri in sm", lines 94-122.                         *)
AccumulateTri(h, tri) ==
    IF Degenerate(TriR(tri)) THEN h
    ELSE LET d  == TriDirs(tri)
             h1 == IAdd(h, sdir[tri[1] + 1], d.sd)
             h2 == IAdd(h1, sdir[tri[2] + 1], d.sd)
             h3 == IAdd(h2, sdir[tri[3] + 1], d.sd)
             h4 == IAdd(h3, tdir[tri[1] + 1], d.td)
             h5 == IAdd(h4, tdir[tri[2] + 1], d.td)
         IN  IAdd(h5, tdir[tri[3] + 1], d.td)

TangentsTri ==
    /\ pc = "tangents_tri"
    /\ smi < Len(mumesh.submeshes)
    /\ i < Len(mumesh.submeshes[smi + 1])
    /\ LET tri == mumesh.submeshes[smi + 1][i + 1]
       IN  heap' = AccumulateTri(heap, tri)
    /\ i' = i + 1
    /\ UNCHANGED <<entry, pc, err, mesh, sm_arg, submeshes, smi, vertLocals,
                   mumesh, mesh_groups, sdir, tdir, tangents, binder, muobj,
                   skin>>

(* A submesh is exhausted: the next one, or on to the loop of line 123.    *)
TangentsNext ==
    /\ pc = "tangents_tri"
    /\ smi < Len(mumesh.submeshes)
    /\ i >= Len(mumesh.submeshes[smi + 1])
    /\ smi' = IF smi + 1 < Len(mumesh.submeshes) THEN smi + 1 ELSE 0
    /\ i' = 0
    /\ pc' = IF smi + 1 < Len(mumesh.submeshes) THEN "tangents_tri"
                                                ELSE "tangents_fin"
    /\ UNCHANGED <<entry, err, mesh, sm_arg, submeshes, vertLocals, mumesh,
                   mesh_groups, tanLocals, binder, muobj, skin>>

(* One iteration of "for i, n in enumerate(normals)", lines 124-128: t is  *)
(* the object sdir[i], changed in place by -= and normalize().             *)
Orthonormalized(t, n) == Normalized(VSub(t, VScale(VDot(t, n), n)))

Hand(t, td) == IF VDot(t, td) < 0 THEN -1 ELSE 1

TangentsVertex ==
    /\ pc = "tangents_fin"
    /\ i < Len(mumesh.normals)
    /\ LET n == mumesh.normals[i + 1]
           t == Orthonormalized(heap[sdir[i + 1]], n)
           h == [heap EXCEPT ![sdir[i + 1]] = t]
       IN  /\ heap' = h
           /\ tangents' = Append(tangents, t \o <<Hand(t, h[tdir[i + 1]])>>)
    /\ i' = i + 1
    /\ UNCHANGED <<entry, pc, err, mesh, sm_arg, submeshes, smi, vertLocals,
                   mumesh, mesh_groups, sdir, tdir, binder, muobj, skin>>

(* make_tangents returns (line 129); make_mesh stores the tangents and     *)
(* returns the MuMesh (lines 151-153); handle_mesh stores it (line 195).   *)
MakeMeshReturn ==
    /\ pc = "tangents_fin"
    /\ i >= Len(mumesh.normals)
    /\ mumesh' = [mumesh EXCEPT !.tangents = tangents,
                                !.present = @ \cup {"tangents"}]
    /\ muobj' = [muobj EXCEPT !.shared_mesh = mumesh',
                              !.attrs = @ \cup {"shared_mesh"}]
    /\ pc' = "make_renderer"
    /\ UNCHANGED <<entry, err, mesh, sm_arg, submeshes, smi, i, vertLocals,
                   mesh_groups, tanLocals, binder, skin>>

(***************************************************************************)
(* Material slots of the object's mesh data (mesh.materials).  A material  *)
(* without a shader has the empty shaderName.                              *)
(***************************************************************************)
Hull == [name |-> "hull", shaderName |-> "KSP/Diffuse"]

Plain == [name |-> "plain", shaderName |-> ""]

SlotLists == {<<>>, <<Plain>>, <<Hull>>, <<Plain, Hull>>, <<Hull, Plain, Hull>>}

(* Python values that may be None: a list is tagged.                       *)
List(items) == [tag |-> "list", items |-> items]

Truthy(v) == v.tag = "list" /\ v.items # <<>>

(* make_material (export_mu/material.py): the record registered for a      *)
(* material; its index is its position in the registry.                    *)
make_material(reg, mat) == [name |-> mat.name, index |-> Cardinality(DOMAIN reg)]

(* mesh_materials, lines 156-161: the loop over the slots.                 *)
RECURSIVE BindSlots(_, _, _)
BindSlots(reg, mats, materials) ==
    IF mats = <<>> THEN [registry |-> reg, materials |-> materials]
    ELSE LET mat  == Head(mats)
             reg2 == IF mat.name \notin DOMAIN reg
                     THEN DictPut(reg, mat.name, make_material(reg, mat))
                     ELSE reg
         IN  IF mat.shaderName # ""
             THEN BindSlots(reg2, Tail(mats),
                            Append(materials, reg2[mat.name].index))
             ELSE BindSlots(reg, Tail(mats), materials)

(* mesh_materials has no return statement: the call evaluates to None.     *)
mesh_materials(reg, mats) ==
    [registry |-> BindSlots(reg, mats, <<>>).registry, result |-> None]

(* make_renderer, lines 164-169.                                           *)
make_renderer(reg, mats) ==
    LET mm == mesh_materials(reg, mats)
        r  == [tag |-> "MuRenderer", materials |-> mm.result]
    IN  [registry |-> mm.registry,
         result   |-> IF ~Truthy(r.materials) THEN None ELSE r]

(* handle_mesh, lines 196-197: the renderer is stored and muobj returned.  *)
MakeRenderer ==
    /\ pc = "make_renderer"
    /\ \E mats \in SlotLists :
          LET mr == make_renderer(registry, mats)
          IN  /\ slots' = mats
              /\ registry' = mr.registry
              /\ rend' = mr.result
              /\ muobj' = [muobj EXCEPT !.renderer = mr.result,
                                        !.attrs = @ \cup {"renderer"}]
    /\ pc' = "returned"
    /\ UNCHANGED <<entry, err, mesh, sm_arg, submeshes, smi, i, vertLocals,
                   mumesh, mesh_groups, tanLocals, skin>>

(***************************************************************************)
(* handle_skinned_mesh, line 200.  The names bound in the module's global  *)
(* scope are those of its imports (lines 22-30) and definitions;           *)
(* MuSkinnedMeshRenderer is not among them, so evaluating it raises        *)
(* NameError before the object is touched.  The handler is called on a     *)
(* fresh object, or on one handle_mesh has returned.                       *)
(***************************************************************************)
ModuleNames == {"bpy", "Vector", "MuMesh", "MuRenderer", "collect_modifiers",
                "make_material", "export", "split_face", "build_submeshes",
                "make_tris", "make_verts", "make_tangents", "make_mesh",
                "mesh_materials", "make_renderer", "mesh_bones", "handle_mesh",
                "handle_skinned_mesh", "type_handlers"}

HandleSkinnedMesh ==
    /\ \/ pc = "returned" /\ entry = "handle_mesh"
       \/ pc = "call" /\ entry = "handle_skinned_mesh"
    /\ "MuSkinnedMeshRenderer" \notin ModuleNames
    /\ entry' = "handle_skinned_mesh"
    /\ pc' = "raised"
    /\ err' = "NameError"
    /\ UNCHANGED <<mesh, sm_arg, submeshes, smi, i, vertLocals, mumesh,
                   mesh_groups, tanLocals, binder, muobj, skin>>

Next ==
    \/ BuildSubmeshes
    \/ MakeTrisFace
    \/ MakeTrisNext
    \/ MakeVertsSubmesh
    \/ MakeVertsTri
    \/ MakeVertsNext
    \/ MakeVertsReturn
    \/ MakeMeshStreams
    \/ MakeTangentsEnter
    \/ TangentsTri
    \/ TangentsNext
    \/ TangentsVertex
    \/ MakeMeshReturn
    \/ MakeRenderer
    \/ HandleSkinnedMesh

Spec == Init /\ [][Next]_vars

(***************************************************************************)
(* make_tris and make_verts called directly with a list of two submeshes:  *)
(* the mesh's face indices split at some position (either part may be      *)
(* empty).                                                                 *)
(***************************************************************************)
FaceIndices(m, a, b) == [k \in 1..(b - a) |-> a + k - 1]

SubmeshLists(m) ==
    {<<FaceIndices(m, 0, k), FaceIndices(m, k, Len(m.polygons))>> :
        k \in 0..Len(m.polygons)}

InitSubmeshes ==
    /\ entry = "make_verts"
    /\ pc = "make_tris"
    /\ mesh \in Meshes
    /\ submeshes \in SubmeshLists(mesh)
    /\ sm_arg = submeshes
    /\ Idle

NextSubmeshes ==
    \/ MakeTrisFace
    \/ MakeTrisNext
    \/ MakeVertsSubmesh
    \/ MakeVertsTri
    \/ MakeVertsNext
    \/ MakeVertsReturn

SpecSubmeshes == InitSubmeshes /\ [][NextSubmeshes]_vars

(***************************************************************************)
(* mesh_bones called directly.  armature is the list of bone names,        *)
(* vertex_groups the names of obj.vertex_groups, mgroups the per-vertex    *)
(* membership lists of mumesh.groups (weights in tenths).  printed is what *)
(* line 191 has printed: the function keeps the weight tables nowhere      *)
(* else.                                                                   *)
(***************************************************************************)
Armatures == {<<>>, <<"A">>, <<"A", "B">>, <<"B", "A">>, <<"D", "B">>}

VertexGroupLists == {<<>>, <<"A">>, <<"C", "A">>, <<"A", "B", "C">>,
                     <<"C", "B", "A">>}

Memberships(ng) ==
    [g \in 1..ng |-> [group |-> g - 1,
                      weight |-> CASE g = 1 -> 7 [] g = 2 -> 2 [] OTHER -> 1]]

InitBones ==
    /\ entry = "mesh_bones"
    /\ pc = "bones_armature"
    /\ mesh = NoMesh
    /\ submeshes = <<>>
    /\ sm_arg = <<>>
    /\ IdleButSkin
    /\ \E a \in Armatures, g \in VertexGroupLists, nv \in 0..MaxSkinVerts :
          skin = [NoSkin EXCEPT !.armature = a, !.vertex_groups = g,
                                !.mgroups = [k \in 1..nv |-> Memberships(Len(g))]]

geometry == <<mesh, sm_arg, submeshes, smi, vertLocals, mumesh, mesh_groups,
              tanLocals, binder, muobj>>

(* Lines 173-174, one iteration: boneset.add(bone.name).                   *)
MeshBonesArmature ==
    /\ pc = "bones_armature"
    /\ i < Len(skin.armature)
    /\ skin' = [skin EXCEPT !.boneset = @ \cup {skin.armature[i + 1]}]
    /\ i' = i + 1
    /\ UNCHANGED <<entry, pc, err, geometry>>

(* Lines 175-180, one iteration of "for grp in obj.vertex_groups"; the     *)
(* first one follows the end of the loop over the armature.                *)
MeshBonesGroup ==
    /\ \/ pc = "bones_armature" /\ i >= Len(skin.armature)
          /\ Len(skin.vertex_groups) > 0
       \/ pc = "bones_groups" /\ i < Len(skin.vertex_groups)
    /\ LET k   == IF pc = "bones_armature" THEN 0 ELSE i
           grp == skin.vertex_groups[k + 1]
       IN  /\ skin' = IF grp \in skin.boneset
                      THEN [skin EXCEPT
                              !.boneindices = DictPut(@, grp, Len(skin.bones)),
                              !.bones = Append(@, grp)]
                      ELSE skin
           /\ i' = k + 1
    /\ pc' = "bones_groups"
    /\ UNCHANGED <<entry, err, geometry>>

BonesAtVertices ==
    \/ pc = "bones_armature" /\ i >= Len(skin.armature)
       /\ Len(skin.vertex_groups) = 0
    \/ pc = "bones_groups" /\ i >= Len(skin.vertex_groups)

(* Lines 181-183: the first vertex's "for i in len(vgrp)" iterates over an *)
(* int and raises TypeError; lines 184-191 never run.                      *)
MeshBonesVertex ==
    /\ BonesAtVertices
    /\ skin.mgroups # <<>>
    /\ pc' = "raised"
    /\ err' = "TypeError"
    /\ UNCHANGED <<entry, i, skin, geometry>>

(* Line 192: with no vertex at all the loop body never runs.               *)
MeshBonesReturn ==
    /\ BonesAtVertices
    /\ skin.mgroups = <<>>
    /\ pc' = "returned"
    /\ UNCHANGED <<entry, err, i, skin, geometry>>

NextBones ==
    \/ MeshBonesArmature
    \/ MeshBonesGroup
    \/ MeshBonesVertex
    \/ MeshBonesReturn

SpecBones == InitBones /\ [][NextBones]_vars

(***************************************************************************)
(* The claims.  The corners of the source mesh are restated here from the  *)
(* mesh data alone: corner c of face f is the face's c-th vertex with the  *)
(* UVs of loop loop_start + c in the first nl layers.                      *)
(***************************************************************************)
ClaimCorner(m, f, c, nl) ==
    <<m.polygons[f].vertices[c + 1],
      [l \in 1..nl |-> m.uv_layers[l][m.polygons[f].loop_start + c + 1]]>>

ClaimFan(m, f, nl) ==
    [t \in 1..(Len(m.polygons[f].vertices) - 2) |->
       <<ClaimCorner(m, f, 0, nl), ClaimCorner(m, f, t, nl),
         ClaimCorner(m, f, t + 1, nl)>>]

ClaimSubmesh(m, faces, nl) ==
    Flatten([j \in 1..Len(faces) |-> ClaimFan(m, faces[j] + 1, nl)])

KeyLayers == Min(Len(mesh.uv_layers), UVLayerLimit)

TrisDone == pc = "make_verts_sm" /\ smi = 0

VertsDone == pc = "make_mesh_streams"

(* The corners of all triangles, in order, and the indices they received.  *)
CornerList(nl) ==
    Flatten(Flatten([k \in 1..Len(sm_arg) |-> ClaimSubmesh(mesh, sm_arg[k], nl)]))

IndexList == Flatten(Flatten(submeshes))

SameIndexIffSameKey(nl) ==
    LET cs == CornerList(nl)
        ix == IndexList
    IN  /\ Len(ix) = Len(cs)
        /\ \A p, q \in 1..Len(cs) : (ix[p] = ix[q]) <=> (cs[p] = cs[q])
        /\ Len(verts) = Cardinality(Range(cs))

(* C1, as stated: when make_verts has returned, two triangle corners have  *)
(* the same deduplicated index iff they have the same source vertex and    *)
(* the same UV in every UV layer present on the mesh, and the number of    *)
(* emitted vertices is the number of distinct such corners.                *)
C1_SameIndexIffSameKeyAllLayers ==
    VertsDone => SameIndexIffSameKey(Len(mesh.uv_layers))

(* C1, amended: when make_verts has returned, two triangle corners have    *)
(* the same deduplicated index iff they have the same source vertex and    *)
(* the same UV in each of the first two UV layers (a third layer is not    *)
(* part of the key), and the number of emitted vertices is the number of   *)
(* distinct such corners.                                                  *)
C1_SameIndexIffSameKeyFirstTwoLayers ==
    VertsDone => SameIndexIffSameKey(KeyLayers)

C1_Witness ==
    /\ VertsDone
    /\ LET cs  == CornerList(KeyLayers)
           all == CornerList(Len(mesh.uv_layers))
           ix  == IndexList
       IN  /\ \E p, q \in 1..Len(cs) : ix[p] = ix[q] /\ all[p] # all[q]
           /\ \E p, q \in 1..Len(cs) : cs[p][1] = cs[q][1] /\ ix[p] # ix[q]
           /\ \E p, q \in 1..Len(cs) : cs[p][1] # cs[q][1] /\ cs[p][2] = cs[q][2]
                                         /\ ix[p] # ix[q]

(* C3: when make_tris has returned, every submesh is the concatenation, in *)
(* face order, of the fans of its faces: a face c0..c(N-1) gives the N-2   *)
(* triangles (c0, ci, c(i+1)), i = 1..N-2, each corner with its own UVs.   *)
C3_SubmeshIsConcatenatedFans ==
    TrisDone =>
        /\ Len(submeshes) = Len(sm_arg)
        /\ \A k \in 1..Len(submeshes) :
              submeshes[k] = ClaimSubmesh(mesh, sm_arg[k], KeyLayers)

C3_Witness ==
    /\ TrisDone
    /\ Len(mesh.polygons) = 2
    /\ mesh.polygons[1].loop_total = 4
    /\ mesh.polygons[2].loop_total = 5
    /\ Len(mesh.uv_layers) = 1
    /\ Len(submeshes[1]) = 5
    /\ submeshes[1][2][3][1] = 3

(* C7: while make_verts runs the four lists it builds have one length and  *)
(* every triangle already rewritten holds valid indices into them; every   *)
(* stream present on the MuMesh has the length of its vertex list; and in  *)
(* the mesh make_mesh returned that length is the number of deduplicated   *)
(* vertices, shared by mesh.groups, and every triangle index is valid.     *)
Rewritten(k, j) ==
    \/ pc = "make_verts_sm" /\ k <= smi
    \/ pc = "make_verts_tri" /\ (k <= smi \/ (k = smi + 1 /\ j <= i))
    \/ pc = "make_mesh_streams"

ValidTriangle(tri, n) == \A c \in 1..Len(tri) : tri[c] \in 0..(n - 1)

StreamNames == {"verts", "normals", "uvs", "uv2s", "tangents"}

C7_StreamsAligned ==
    /\ pc \in {"make_verts_sm", "make_verts_tri", "make_mesh_streams"} =>
          /\ Len(normals) = Len(verts)
          /\ Len(uvs) = Len(verts)
          /\ Len(groups) = Len(verts)
          /\ \A k \in 1..Len(submeshes) : \A j \in 1..Len(submeshes[k]) :
                Rewritten(k, j) => /\ Len(submeshes[k][j]) = 3
                                   /\ ValidTriangle(submeshes[k][j], Len(verts))
    /\ \A a \in mumesh.present \cap StreamNames :
          Len(mumesh[a]) = Len(mumesh.verts)
    /\ "shared_mesh" \in muobj.attrs =>
          LET m == muobj.shared_mesh
          IN  /\ {"verts", "normals", "submeshes"} \subseteq m.present
              /\ \A a \in m.present \cap StreamNames : Len(m[a]) = Len(m.verts)
              /\ Len(mesh_groups) = Len(m.verts)
              /\ Len(m.verts) = Cardinality(Range(CornerList(KeyLayers)))
              /\ \A k \in 1..Len(m.submeshes) : \A j \in 1..Len(m.submeshes[k]) :
                    ValidTriangle(m.submeshes[k][j], Len(m.verts))

C7_Witness ==
    /\ "shared_mesh" \in muobj.attrs
    /\ {"uvs", "uv2s", "tangents"} \subseteq muobj.shared_mesh.present
    /\ Len(muobj.shared_mesh.verts) = 7
    /\ Len(muobj.shared_mesh.tangents) = 7
    /\ Len(muobj.shared_mesh.submeshes[1]) = 5

(* C2: when make_verts has returned from a call with two submeshes, a      *)
(* CornerKey occurring in both submeshes has one deduplicated index in     *)
(* both, and each distinct CornerKey was emitted into the vertex stream    *)
(* once.                                                                   *)
C2_SharedDedupAcrossSubmeshes ==
    (entry = "make_verts" /\ pc = "done") =>
        LET c1 == Flatten(ClaimSubmesh(mesh, sm_arg[1], KeyLayers))
            c2 == Flatten(ClaimSubmesh(mesh, sm_arg[2], KeyLayers))
            x1 == Flatten(submeshes[1])
            x2 == Flatten(submeshes[2])
        IN  /\ \A p \in 1..Len(c1) : \A q \in 1..Len(c2) :
                  c1[p] = c2[q] => x1[p] = x2[q]
            /\ Len(verts) = Cardinality(Range(c1) \cup Range(c2))

(* C4: when a call of mesh_bones has ended, it has produced one weight     *)
(* table per deduplicated vertex, each of exactly 4 (boneIndex, weight)    *)
(* entries with non-increasing weights.                                    *)
C4_BoneTablesOfFour ==
    (entry = "mesh_bones" /\ pc \in {"returned", "raised"}) =>
        /\ Len(skin.printed) = Len(skin.mgroups)
        /\ \A v \in 1..Len(skin.printed) :
              /\ Len(skin.printed[v]) = BoneTableSize
              /\ \A e \in 1..(BoneTableSize - 1) :
                    skin.printed[v][e][2] >= skin.printed[v][e + 1][2]

(* C5: when make_renderer has returned, it returned no renderer exactly    *)
(* when no slot has a shader name, and otherwise a renderer whose material *)
(* list holds, in slot order, the registry index of every slot with a      *)
(* shader name.                                                            *)
ShaderSlots(mats) == SelectSeq(mats, LAMBDA mat : mat.shaderName # "")

C5_RendererFollowsShaderSlots ==
    (entry = "handle_mesh" /\ pc = "returned") =>
        LET bound == ShaderSlots(slots)
        IN  /\ (rend.tag = "None") <=> (bound = <<>>)
            /\ rend.tag # "None" =>
                  rend.materials =
                      List([k \in 1..Len(bound) |-> registry[bound[k].name].index])

(* C6: when a call of handle_skinned_mesh has ended, the object carries    *)
(* the skinned mesh renderer and neither a renderer nor a shared mesh;     *)
(* after handle_mesh it carries no skinned mesh renderer.                  *)
C6_SkinnedNeverStatic ==
    /\ (entry = "handle_skinned_mesh" /\ pc \in {"returned", "raised"}) =>
          /\ "skinned_mesh_renderer" \in muobj.attrs
          /\ "renderer" \notin muobj.attrs
          /\ "shared_mesh" \notin muobj.attrs
    /\ (entry = "handle_mesh" /\ pc = "returned") =>
          "skinned_mesh_renderer" \notin muobj.attrs

(* The triangles make_tangents has processed so far, and the sum a vertex  *)
(* is owed: the sd (or td) of each processed, non-skipped triangle that    *)
(* has it as a corner, once per triangle.                                  *)
Processed ==
    IF pc = "tangents_tri"
    THEN Flatten(SubSeq(mumesh.submeshes, 1, smi))
         \o SubSeq(mumesh.submeshes[smi + 1], 1, i)
    ELSE Flatten(mumesh.submeshes)

RECURSIVE OwnSum(_, _, _)
OwnSum(k, tris, field) ==
    IF tris = <<>> THEN Zero3
    ELSE LET rest == OwnSum(k, Tail(tris), field)
         IN  IF k \in Range(Head(tris)) /\ ~Degenerate(TriR(Head(tris)))
             THEN VAdd(TriDirs(Head(tris))[field], rest)
             ELSE rest

OwnTangent(k) ==
    LET t == Orthonormalized(OwnSum(k, Processed, "sd"), mumesh.normals[k + 1])
    IN  t \o <<Hand(t, OwnSum(k, Processed, "td"))>>

OnlySkipped(k) ==
    \A t \in Range(Flatten(mumesh.submeshes)) : k \in Range(t) => Degenerate(TriR(t))

(* C8: a skipped triangle adds nothing to any accumulator, and when        *)
(* make_tangents has returned, every vertex all of whose triangles were    *)
(* skipped has the fallback tangent (0, 0, 0, +1), whatever the other      *)
(* triangles of the mesh are.                                              *)
C8_SkippedVertexGetsFallback ==
    /\ pc = "tangents_tri" =>
          ((\A t \in Range(Processed) : Degenerate(TriR(t)))
              => heap = <<Zero3, Zero3>>)
    /\ pc = "make_renderer" =>
          \A k \in 0..(Len(mumesh.verts) - 1) :
              OnlySkipped(k) => mumesh.tangents[k + 1] = <<0, 0, 0, 1>>

(* C9: during the triangle loop the accumulators of a vertex hold exactly  *)
(* the sums of sd and td over the processed triangles it is a corner of;   *)
(* during the final loop the accumulator of a vertex not yet finalized is  *)
(* unchanged by the finalization of the others, and each tangent emitted   *)
(* is the one computed from the vertex's own sums and normal.              *)
C9_AccumulationIsPerVertex ==
    /\ pc = "tangents_tri" =>
          \A k \in 0..(Len(sdir) - 1) :
              /\ heap[sdir[k + 1]] = OwnSum(k, Processed, "sd")
              /\ heap[tdir[k + 1]] = OwnSum(k, Processed, "td")
    /\ pc = "tangents_fin" =>
          \A k \in 0..(Len(sdir) - 1) :
              /\ k >= i => heap[sdir[k + 1]] = OwnSum(k, Processed, "sd")
              /\ heap[tdir[k + 1]] = OwnSum(k, Processed, "td")
              /\ k < i => tangents[k + 1] = OwnTangent(k)

(* C10: make_mesh does not raise, and the mesh it returns has UV0 and      *)
(* tangents exactly when the source mesh has at least one UV layer and UV1 *)
(* exactly when it has at least two.                                       *)
C10_OptionalStreamsFollowLayers ==
    /\ ~(pc = "raised" /\ err = "IndexError")
    /\ "shared_mesh" \in muobj.attrs =>
          LET has == muobj.shared_mesh.present
              nl  == Len(mesh.uv_layers)
          IN  /\ "uvs" \in has <=> nl >= 1
              /\ "tangents" \in has <=> nl >= 1
              /\ "uv2s" \in has <=> nl >= 2

====
